---------------------------- MODULE Spec2Model ----------------------------
(***************************************************************************)
(* CryptoPulseSentinel (src/sentinel.py): an object holding a data frame   *)
(* of market candles (self.data) and a frame of flagged candles            *)
(* (self.anomalies), with the methods fetch_market_data,                   *)
(* _calculate_metrics, identify_fat_fingers and export_report.             *)
(*                                                                         *)
(* Numbers.  A float is modelled exactly, as a record [k, n, d]:           *)
(*   k = "fin": the rational n/d (d > 0, lowest terms),                    *)
(*   k = "inf": +infinity (n = 1) or -infinity (n = -1),                   *)
(*   k = "nan": NaN, the frame's "undefined".                              *)
(* Arithmetic follows IEEE-754 as numpy applies it to float columns:       *)
(* x/0 is +-inf for x # 0 and NaN for x = 0, inf - inf is NaN, every       *)
(* comparison with NaN is false.  Rounding is not modelled.                *)
(* A standard deviation and a z-score are square roots of rationals; they  *)
(* are kept exactly as [k, s, n, d], meaning s * sqrt(n/d), s in -1..1.    *)
(***************************************************************************)
EXTENDS Integers, Sequences, FiniteSets

VARIABLES
    data,        \* self.data
    anomalies,   \* self.anomalies
    files,       \* the report files written so far
    call,        \* the most recent call: method, arguments, outcome
    ret,         \* what that call returned
    identified   \* history: the result of the last identify_fat_fingers that returned

vars == <<data, anomalies, files, call, ret, identified>>

---------------------------------------------------------------------------
(* Exact arithmetic on floats. *)

Abs(x) == IF x < 0 THEN -x ELSE x

Sign(x) == IF x < 0 THEN -1 ELSE IF x = 0 THEN 0 ELSE 1

RECURSIVE GCD(_, _)
GCD(a, b) == IF b = 0 THEN a ELSE GCD(b, a % b)

NaN == [k |-> "nan", n |-> 0, d |-> 1]

Inf(s) == [k |-> "inf", n |-> s, d |-> 1]

\* The rational n/d in lowest terms, d # 0.
Fin(n, d) ==
    LET g == GCD(Abs(n), Abs(d))
    IN  [k |-> "fin", n |-> Sign(d) * (n \div g), d |-> Abs(d) \div g]

Num(i) == [k |-> "fin", n |-> i, d |-> 1]

Neg(a) == [a EXCEPT !.n = -a.n]

Add(a, b) ==
    IF a.k = "nan" \/ b.k = "nan" THEN NaN
    ELSE IF a.k = "inf" /\ b.k = "inf" THEN (IF a.n = b.n THEN a ELSE NaN)
    ELSE IF a.k = "inf" THEN a
    ELSE IF b.k = "inf" THEN b
    ELSE LET l == (a.d \div GCD(a.d, b.d)) * b.d
         IN  Fin(a.n * (l \div a.d) + b.n * (l \div b.d), l)

Sub(a, b) == Add(a, Neg(b))

Mul(a, b) ==
    IF a.k = "nan" \/ b.k = "nan" THEN NaN
    ELSE IF a.k = "inf" \/ b.k = "inf"
         THEN (IF a.n = 0 \/ b.n = 0 THEN NaN ELSE Inf(Sign(a.n) * Sign(b.n)))
    ELSE LET g1 == GCD(Abs(a.n), b.d)
             g2 == GCD(Abs(b.n), a.d)
         IN  Fin((a.n \div g1) * (b.n \div g2), (a.d \div g2) * (b.d \div g1))

\* Float division: no exception, x/0 = +-inf, 0/0 = NaN (the divisor 0 is +0).
Div(a, b) ==
    IF a.k = "nan" \/ b.k = "nan" THEN NaN
    ELSE IF a.k = "inf"
         THEN (IF b.k = "inf" THEN NaN
               ELSE Inf(a.n * (IF b.n < 0 THEN -1 ELSE 1)))
    ELSE IF b.k = "inf" THEN Num(0)
    ELSE IF b.n = 0 THEN (IF a.n = 0 THEN NaN ELSE Inf(Sign(a.n)))
    ELSE Mul(a, Fin(b.d, b.n))

\* a > b on floats: false when either side is NaN.
Gt(a, b) ==
    IF a.k = "nan" \/ b.k = "nan" THEN FALSE
    ELSE IF a.k = "inf" THEN a.n = 1 /\ ~(b.k = "inf" /\ b.n = 1)
    ELSE IF b.k = "inf" THEN b.n = -1
    ELSE a.n * b.d > b.n * a.d

(* Square roots of rationals: [k, s, n, d] is s * sqrt(n/d). *)

RootNaN == [k |-> "nan", s |-> 0, n |-> 0, d |-> 1]

RootInf(s) == [k |-> "inf", s |-> s, n |-> 0, d |-> 1]

\* sqrt of a float that is never negative here (a variance).
Sqrt(a) ==
    IF a.k = "nan" THEN RootNaN
    ELSE IF a.k = "inf" THEN (IF a.n = 1 THEN RootInf(1) ELSE RootNaN)
    ELSE [k |-> "fin", s |-> Sign(a.n), n |-> a.n, d |-> a.d]

\* A division that yields 0 for a zero divisor.
DivRootGuarded(a, r) ==
    IF a.k = "nan" \/ r.k = "nan" THEN RootNaN
    ELSE IF a.k = "inf"
         THEN (IF r.k = "inf" THEN RootNaN ELSE RootInf(a.n))
    ELSE IF r.k = "inf" \/ r.n = 0 THEN [k |-> "fin", s |-> 0, n |-> 0, d |-> 1]
    ELSE LET q == Div(Mul(a, a), [k |-> "fin", n |-> r.n, d |-> r.d])
         IN  [k |-> "fin", s |-> Sign(a.n), n |-> q.n, d |-> q.d]

\* a / r for a float a and a root r >= 0, with the float rules of Div.
DivRoot(a, r) ==
    IF a.k = "nan" \/ r.k = "nan" THEN RootNaN
    ELSE IF a.k = "inf"
         THEN (IF r.k = "inf" THEN RootNaN ELSE RootInf(a.n))
    ELSE IF r.k = "inf" THEN [k |-> "fin", s |-> 0, n |-> 0, d |-> 1]
    ELSE IF r.n = 0 THEN (IF a.n = 0 THEN RootNaN ELSE RootInf(Sign(a.n)))
    ELSE LET q == Div(Mul(a, a), [k |-> "fin", n |-> r.n, d |-> r.d])
         IN  [k |-> "fin", s |-> Sign(a.n), n |-> q.n, d |-> q.d]

\* r > t for a root r and an integer t: false when r is NaN.
GtRoot(r, t) ==
    IF r.k = "nan" THEN FALSE
    ELSE IF r.k = "inf" THEN r.s = 1
    ELSE IF t >= 0 THEN r.s = 1 /\ r.n > t * t * r.d
    ELSE r.s >= 0 \/ r.n < t * t * r.d

---------------------------------------------------------------------------
(* Data frames.  A frame is [columns, rows]: columns says whether the frame *)
(* has the candle columns (pd.DataFrame() has none), rows is the sequence   *)
(* of its rows.  A candle row is [ix, High, Low, Volume], ix being its      *)
(* index label (the position of its timestamp in its batch); Open and Close *)
(* are never read by the code and are left out.                             *)

DefaultWindow == 30

VolWindow == 30

\* pd.DataFrame(): no columns, no rows.
EmptyFrame == [columns |-> FALSE, rows |-> <<>>]

Frame(rows) == [columns |-> TRUE, rows |-> rows]

\* DataFrame.empty
IsEmpty(df) == df.rows = <<>>

\* A column or a row list as a sequence, each element evaluated once.
Series(f) == f \o <<>>

Column(df, name) == Series([i \in DOMAIN df.rows |-> Num(df.rows[i][name])])

\* The sum of s[lo..hi]; exact, so the order of the additions is immaterial.
RECURSIVE SumTo(_, _, _)
SumTo(s, lo, hi) ==
    IF lo > hi THEN Num(0)
    ELSE IF lo = hi THEN s[lo]
    ELSE LET mid == (lo + hi) \div 2
         IN  Add(SumTo(s, lo, mid), SumTo(s, mid + 1, hi))

\* The sum of the squared deviations of s[lo..hi] from their mean, as
\* sum(x^2) - sum(x)^2 / n: the same number, in exact arithmetic.
SumSqDev(s, lo, hi) ==
    Sub(SumTo([j \in lo..hi |-> Mul(s[j], s[j])], lo, hi),
        Div(Mul(SumTo(s, lo, hi), SumTo(s, lo, hi)), Num(hi - lo + 1)))

\* rolling(window, min_periods=1): a value as soon as one observation is there.
MinPeriodsOne(s, window, i) ==
    /\ i >= 1
    /\ \A j \in (IF i >= window THEN i - window + 1 ELSE 1)..i : s[j].k = "fin"

\* Series.rolling(window): the window ending at i yields a value only when it
\* holds `window` observations (min_periods defaults to the window size);
\* pandas counts NaN as missing and turns +-inf into NaN before it aggregates.
RollingFull(s, window, i) ==
    /\ i >= window
    /\ \A j \in (i - window + 1)..i : s[j].k = "fin"

\* expanding(): every window starts at the first row.
WindowExpanding(window, i) == 1

\* The first index of the window ending at i.
WindowLo(window, i) == IF i >= window THEN i - window + 1 ELSE 1

\* Series.rolling(window).mean()
RollingMean(s, window) ==
    [i \in DOMAIN s |->
        IF RollingFull(s, window, i)
        THEN Div(SumTo(s, WindowLo(window, i), i), Num(i - WindowLo(window, i) + 1))
        ELSE NaN]

\* The variance with ddof = 0.
PopulationVar(sumsq, nobs) == Div(sumsq, Num(nobs))

\* The variance of nobs observations with ddof = 1: NaN unless nobs > 1.
SampleVar(sumsq, nobs) == IF nobs > 1 THEN Div(sumsq, Num(nobs - 1)) ELSE NaN

\* Series.rolling(window).std(): the sample standard deviation.
RollingStd(s, window) ==
    [i \in DOMAIN s |->
        IF RollingFull(s, window, i)
        THEN Sqrt(SampleVar(SumSqDev(s, WindowLo(window, i), i),
                            i - WindowLo(window, i) + 1))
        ELSE RootNaN]

\* _calculate_metrics(window) on a frame that has the candle columns: the
\* frame's rows with needle_pct, rolling_mean, rolling_std and z_score added.
_calculate_metrics(df, window) ==
    LET High   == Column(df, "High")
        Low    == Column(df, "Low")
        needle == Series([i \in DOMAIN df.rows |->
                              Div(Sub(High[i], Low[i]), Low[i])])
        mean   == RollingMean(needle, window)
        std    == RollingStd(needle, window)
    IN  Frame(Series([i \in DOMAIN df.rows |->
            [ix           |-> df.rows[i].ix,
             High         |-> df.rows[i].High,
             Low          |-> df.rows[i].Low,
             Volume       |-> df.rows[i].Volume,
             needle_pct   |-> needle[i],
             rolling_mean |-> mean[i],
             rolling_std  |-> std[i],
             z_score      |-> DivRoot(Sub(needle[i], mean[i]), std[i])]]))

\* avg_vol of identify_fat_fingers
AvgVol(df) == RollingMean(Column(df, "Volume"), VolWindow)

\* The two conditions joined by | instead of &.
MaskOr(zcond, vcond) == zcond \/ vcond

\* mask = (z_score > z_threshold) & (Volume > avg_vol * vol_multiplier)
MaskAnd(zcond, vcond) == zcond /\ vcond

Mask(df, avg_vol, z_threshold, vol_multiplier) ==
    [i \in DOMAIN df.rows |->
        MaskAnd(GtRoot(df.rows[i].z_score, z_threshold),
                Gt(Num(df.rows[i].Volume), Mul(avg_vol[i], Num(vol_multiplier))))]

\* df[mask]: the rows the mask selects, in order, with their index labels.
RECURSIVE Select(_, _, _)
Select(rows, mask, n) ==
    IF n = 0 THEN <<>>
    ELSE IF mask[n] THEN Append(Select(rows, mask, n - 1), rows[n])
    ELSE Select(rows, mask, n - 1)

\* The frame identify_fat_fingers stores and returns, for data with columns.
FatFingers(df0, z_threshold, vol_multiplier) ==
    LET df      == _calculate_metrics(df0, DefaultWindow)
        avg_vol == AvgVol(df)
        mask    == Mask(df, avg_vol, z_threshold, vol_multiplier)
    IN  Frame(Select(df.rows, mask, Len(df.rows)))

---------------------------------------------------------------------------
(* The object and its methods. *)

MaxFiles == 1

MaxTail == 2

MaxWindow == 3

\* No value: what a call that raised, or export_report, hands back.
None == EmptyFrame

NoCall ==
    [op |-> "__init__", window |-> 0, z_threshold |-> 0, vol_multiplier |-> 0,
     format |-> "", outcome |-> "returned"]

\* __init__
Init ==
    /\ data = EmptyFrame
    /\ anomalies = EmptyFrame
    /\ files = <<>>
    /\ call = NoCall
    /\ ret = None
    /\ identified = EmptyFrame

\* A fetch that starts a new batch with no anomalies.
FetchResetsAnomalies(df) == EmptyFrame

\* What fetch_market_data leaves in self.anomalies: it never assigns it.
AnomaliesAfterFetch(df) == anomalies

\* fetch_market_data, df being the frame yf.download hands back.  self.data is
\* assigned before the emptiness test, so a failed fetch replaces the data too.
fetch_market_data(df) ==
    /\ data' = df
    /\ anomalies' = AnomaliesAfterFetch(df)
    /\ call' = [NoCall EXCEPT !.op = "fetch_market_data",
                              !.outcome = IF IsEmpty(df) THEN "ConnectionError"
                                          ELSE "returned"]
    /\ ret' = IF IsEmpty(df) THEN None ELSE df
    /\ UNCHANGED <<files, identified>>

\* fetch_market_data when yf.download itself raises: line 21 assigns nothing.
download_raises ==
    /\ call' = [NoCall EXCEPT !.op = "fetch_market_data", !.outcome = "Exception"]
    /\ ret' = None
    /\ UNCHANGED <<data, anomalies, files, identified>>

\* _calculate_metrics(window) called on the object: df['High'] raises KeyError
\* on a frame without columns; nothing is stored.
calculate_metrics(window) ==
    /\ call' = [NoCall EXCEPT !.op = "_calculate_metrics", !.window = window,
                              !.outcome = IF data.columns THEN "returned"
                                          ELSE "KeyError"]
    /\ ret' = IF data.columns THEN _calculate_metrics(data, window) ELSE None
    /\ UNCHANGED <<data, anomalies, files, identified>>

\* identify_fat_fingers(z_threshold, vol_multiplier)
identify_fat_fingers(z_threshold, vol_multiplier) ==
    /\ call' = [NoCall EXCEPT !.op = "identify_fat_fingers",
                              !.window = DefaultWindow,
                              !.z_threshold = z_threshold,
                              !.vol_multiplier = vol_multiplier,
                              !.outcome = IF data.columns THEN "returned"
                                          ELSE "KeyError"]
    /\ anomalies' = IF data.columns
                    THEN FatFingers(data, z_threshold, vol_multiplier)
                    ELSE anomalies
    /\ ret' = IF data.columns THEN anomalies' ELSE None
    /\ identified' = IF data.columns THEN ret' ELSE identified
    /\ UNCHANGED <<data, files>>

\* to_csv writes the index and the columns; to_json(orient="records") writes
\* the columns of each row without the index.
Report(format, df) ==
    [format |-> format,
     rows   |-> IF format = "csv" THEN df.rows
                ELSE [i \in DOMAIN df.rows |->
                        [c \in DOMAIN df.rows[i] \ {"ix"} |-> df.rows[i][c]]]]

\* A writer for every format.
WritesAnyFormat(format) == TRUE

\* The formats export_report has a writer for.
Writes(format) == format \in {"csv", "json"}

\* export_report(format); files is the sequence of files written so far
\* (each under a name of its own second), at most MaxFiles of them.
export_report(format) ==
    /\ call' = [NoCall EXCEPT !.op = "export_report", !.format = format]
    /\ ret' = None
    /\ IF ~IsEmpty(anomalies) /\ Writes(format)
       THEN /\ Len(files) < MaxFiles
            /\ files' = Append(files, Report(format, anomalies))
       ELSE UNCHANGED files
    /\ UNCHANGED <<data, anomalies, identified>>

---------------------------------------------------------------------------
(* Inputs. *)

Candle(h, l, v) == [High |-> h, Low |-> l, Volume |-> v]

\* A quiet candle: needle_pct = 0.01, volume 10.
Base == Candle(101, 100, 10)

\* A price needle of 0.50 on ten times the volume.
Spike == Candle(150, 100, 100)

Candles ==
    {Base, Spike, Candle(150, 100, 10), Candle(101, 100, 100),
     Candle(5, 0, 10), Candle(0, 0, 10)}

Formats == {"csv", "json", "xml"}

\* The frame of `pad` quiet candles followed by the candles of `tail`.
Batch(pad, tail) ==
    Frame(Series([i \in 1..(pad + Len(tail)) |->
        LET c == IF i <= pad THEN Base ELSE tail[i - pad]
        IN  [ix |-> i, High |-> c.High, Low |-> c.Low, Volume |-> c.Volume]]))

Tails == UNION {[1..n -> Candles] : n \in 0..MaxTail}

Batches ==
    {Batch(pad, tail) : pad \in {0, 4, DefaultWindow - 1}, tail \in Tails}

\* What the feed may hand back: nothing (with or without the columns), a
\* batch shorter than the window, and two batches that reach it.
Feed ==
    {EmptyFrame, Frame(<<>>), Batch(DefaultWindow - 1, <<>>),
     Batch(DefaultWindow - 1, <<Spike>>), Batch(DefaultWindow - 1, <<Spike, Spike>>)}

Fetch == \E df \in Feed : fetch_market_data(df)

FetchRaises == download_raises

Calculate == calculate_metrics(DefaultWindow)

\* The defaults, a pair of thresholds low enough to flag, and a negative pair.
Thresholds == {<<8, 5>>, <<1, 5>>, <<-1, -1>>}

Identify == \E t \in Thresholds : identify_fat_fingers(t[1], t[2])

Export == \E f \in Formats : export_report(f)

Next == Fetch \/ FetchRaises \/ Calculate \/ Identify \/ Export

\* Any sequence of calls on one object.
Spec == Init /\ [][Next]_vars

(* One call of the detector on an object holding each batch (or still the   *)
(* frame of its construction): the pure functions on their inputs.          *)

InitBatch ==
    /\ data \in Batches \cup {EmptyFrame}
    /\ anomalies = EmptyFrame
    /\ files = <<>>
    /\ call = NoCall
    /\ ret = None
    /\ identified = EmptyFrame

CalculateAny ==
    /\ call = NoCall
    /\ \E w \in (1..MaxWindow) \cup {DefaultWindow} : calculate_metrics(w)

IdentifyAny ==
    /\ call = NoCall
    /\ \E zt \in {-1, 1, 5, 6, 8}, vm \in {-1, 5} : identify_fat_fingers(zt, vm)

NextOnce == CalculateAny \/ IdentifyAny

SpecBatch == InitBatch /\ [][NextOnce]_vars

---------------------------------------------------------------------------
(* Properties. *)

Returned(op) == call.op = op /\ call.outcome = "returned"

\* The index labels of the rows of a frame.
Labels(df) == {df.rows[j].ix : j \in DOMAIN df.rows}

\* The metrics identify_fat_fingers works on, for the current data.
Metrics == _calculate_metrics(data, DefaultWindow).rows

RECURSIVE VolumeSum(_, _, _)
VolumeSum(rows, lo, hi) ==
    IF lo > hi THEN 0 ELSE rows[hi].Volume + VolumeSum(rows, lo, hi - 1)

\* Condition 1 of the detector for a metric row m: z_score defined and above.
ZCondition(m, z_threshold) ==
    m.z_score.k # "nan" /\ GtRoot(m.z_score, z_threshold)

\* Condition 2 for row i, in integers: the trailing VolWindow volumes exist
\* and volume > (their sum / VolWindow) * vol_multiplier.
VolCondition(rows, i, vol_multiplier) ==
    /\ i >= VolWindow
    /\ rows[i].Volume * VolWindow
         > VolumeSum(rows, i - VolWindow + 1, i) * vol_multiplier

\* C1: identify_fat_fingers flags a record if and only if its z_score is
\* defined and above z_threshold and its rolling volume mean is defined and
\* volume > rolling mean * vol_multiplier; one condition alone never flags.
C1_FlaggedIffBoth ==
    Returned("identify_fat_fingers") =>
        LET m == Metrics
        IN  \A i \in DOMAIN data.rows :
                (i \in Labels(ret)) <=>
                    (/\ ZCondition(m[i], call.z_threshold)
                     /\ VolCondition(data.rows, i, call.vol_multiplier))

\* A call that leaves out a record with the price needle alone and flags one
\* with both conditions.
C1_Witness ==
    /\ Returned("identify_fat_fingers")
    /\ LET m == Metrics
       IN  \E i, j \in DOMAIN data.rows :
            /\ ZCondition(m[i], call.z_threshold)
            /\ ~VolCondition(data.rows, i, call.vol_multiplier)
            /\ i \notin Labels(ret)
            /\ ZCondition(m[j], call.z_threshold)
            /\ VolCondition(data.rows, j, call.vol_multiplier)
            /\ j \in Labels(ret)

\* The needle_pct values of the window ending at row i are all finite.
FiniteWindow(rows, window, i) ==
    \A j \in (i - window + 1)..i : rows[j].needle_pct.k = "fin"

RollingUndefined(m) ==
    m.rolling_mean.k = "nan" /\ m.rolling_std.k = "nan" /\ m.z_score.k = "nan"

\* C2 as stated: for every window size w, rolling_mean, rolling_std and
\* z_score are undefined at every index below w-1, and rolling_mean and
\* rolling_std are defined wherever the window holds only defined values.
C2_AsStated ==
    Returned("_calculate_metrics") =>
        \A i \in DOMAIN ret.rows :
            /\ i < call.window => RollingUndefined(ret.rows[i])
            /\ (i >= call.window /\ FiniteWindow(ret.rows, call.window, i)) =>
                 (ret.rows[i].rolling_mean.k = "fin" /\ ret.rows[i].rolling_std.k = "fin")

\* C2, amended: as stated for rolling_mean; rolling_std is defined on a full
\* window of finite values when w >= 2, and undefined everywhere when w = 1
\* (the sample deviation of one value).
C2_RollingDefined ==
    Returned("_calculate_metrics") =>
        \A i \in DOMAIN ret.rows :
            /\ i < call.window => RollingUndefined(ret.rows[i])
            /\ (i >= call.window /\ FiniteWindow(ret.rows, call.window, i)) =>
                 /\ ret.rows[i].rolling_mean.k = "fin"
                 /\ (call.window >= 2 => ret.rows[i].rolling_std.k = "fin")
            /\ call.window = 1 => ret.rows[i].rolling_std.k = "nan"

\* Metrics with a window of at least 2 over a batch that has rows before the
\* first full window and a full window of finite values.
C2_Witness ==
    /\ Returned("_calculate_metrics")
    /\ call.window >= 2
    /\ Len(ret.rows) > call.window
    /\ RollingUndefined(ret.rows[1])
    /\ \E i \in DOMAIN ret.rows :
        /\ i >= call.window
        /\ FiniteWindow(ret.rows, call.window, i)
        /\ ret.rows[i].rolling_std.k = "fin"
        /\ ret.rows[i].rolling_std.n > 0

IsZero(r) == r.k = "fin" /\ r.n = 0

\* C4: where rolling_std is defined and 0, z_score is undefined, never
\* infinite, and the record is not flagged, whatever the thresholds.
C4_ZeroStdUndefined ==
    /\ Returned("_calculate_metrics") =>
        \A i \in DOMAIN ret.rows :
            IsZero(ret.rows[i].rolling_std) => ret.rows[i].z_score.k = "nan"
    /\ Returned("identify_fat_fingers") =>
        LET m == Metrics
        IN  \A i \in DOMAIN data.rows :
                IsZero(m[i].rolling_std) => i \notin Labels(ret)

\* A call with negative thresholds on a batch with a flat window, whose
\* record passes the volume condition and is left out all the same.
C4_Witness ==
    /\ Returned("identify_fat_fingers")
    /\ call.z_threshold < 0
    /\ LET m == Metrics
       IN  \E i \in DOMAIN data.rows :
            /\ IsZero(m[i].rolling_std)
            /\ VolCondition(data.rows, i, call.vol_multiplier)
            /\ i \notin Labels(ret)

\* C5: for every record with low = 0, needle_pct is undefined (not
\* infinite), the computation does not abort, and the record is not flagged.
C5_AsStated ==
    /\ (call.op = "_calculate_metrics" /\ data.columns) =>
        /\ call.outcome = "returned"
        /\ \A i \in DOMAIN ret.rows :
            ret.rows[i].Low = 0 => ret.rows[i].needle_pct.k = "nan"
    /\ (call.op = "identify_fat_fingers" /\ data.columns) =>
        /\ call.outcome = "returned"
        /\ \A i \in DOMAIN data.rows :
            data.rows[i].Low = 0 => i \notin Labels(ret)

\* C6: a call with an invalid parameter (negative z_threshold or
\* vol_multiplier) is rejected with an error: it returns no result.
C6_AsStated ==
    (/\ call.op = "identify_fat_fingers"
     /\ (call.z_threshold < 0 \/ call.vol_multiplier < 0)) =>
        call.outcome # "returned"

\* The batch of the example: needle_pct = [0.01, 0.01, 0.01, 0.01, 0.50],
\* volume = [10, 10, 10, 10, 100].
Example == Batch(4, <<Spike>>)

\* The rolling volume mean over the example's window.
ExampleAvgVol == RollingMean(Column(data, "Volume"), 3)

\* The rows the detector's mask selects from the metrics of the example.
ExampleFlagged ==
    {i \in DOMAIN ret.rows :
        /\ GtRoot(ret.rows[i].z_score, 8)
        /\ Gt(Num(ret.rows[i].Volume), Mul(ExampleAvgVol[i], Num(5)))}

OnExample ==
    /\ data = Example
    /\ Returned("_calculate_metrics")
    /\ call.window = 3

C8_ExportWritesIff ==
    [][call'.op = "export_report" =>
        /\ (files' # files) <=>
             (~IsEmpty(anomalies) /\ call'.format \in {"csv", "json"})
        /\ IsEmpty(anomalies) =>
             /\ call'.outcome = "returned"
             /\ files' = files
             /\ data' = data
             /\ anomalies' = anomalies]_vars

\* An export that wrote a file of the stored anomalies.
C8_Witness ==
    /\ call.op = "export_report"
    /\ files # <<>>
    /\ ~IsEmpty(anomalies)
    /\ files[Len(files)] = Report(call.format, anomalies)

\* C9: every defined z_score obeys z_score^2 * w <= (w-1)^2 and none is
\* infinite; with the window of 30 of identify_fat_fingers nothing is
\* flagged when z_threshold >= 6.
C9_ZScoreBound ==
    /\ Returned("_calculate_metrics") =>
        \A i \in DOMAIN ret.rows :
            /\ ret.rows[i].z_score.k # "inf"
            /\ ret.rows[i].z_score.k = "fin" =>
                 ret.rows[i].z_score.n * call.window
                    <= (call.window - 1) * (call.window - 1) * ret.rows[i].z_score.d
    /\ (Returned("identify_fat_fingers") /\ call.z_threshold >= 6) => IsEmpty(ret)

\* The default threshold on a batch whose last full window ends in the one
\* spike, on ten times the volume: nothing is flagged.
C9_Witness ==
    /\ Returned("identify_fat_fingers")
    /\ call.z_threshold = 8
    /\ call.vol_multiplier = 5
    /\ \E i \in DOMAIN data.rows :
        /\ i >= DefaultWindow
        /\ data.rows[i].High = Spike.High
        /\ VolCondition(data.rows, i, call.vol_multiplier)
        /\ \A j \in 1..(i - 1) : data.rows[j].High = Base.High
    /\ IsEmpty(ret)

=============================================================================
